---- MODULE Spec2Model ----
(***************************************************************************)
(* GenApi (src/src/GenApi.js): an OpenAPI operation is answered by a       *)
(* language model; processRequest validates the model's reply against the  *)
(* operation's 200-response schema, merges it into a blank skeleton and    *)
(* retries a failed attempt up to MAX_RETRY_ATTEMPTS times.                *)
(*                                                                         *)
(* JSON values are tagged records [k, v]; a text (a JS string that is      *)
(* parsed or produced by JSON.stringify) is a sequence of lexical tokens   *)
(* [tag, lex], so that normalisation, parsing and serialisation are        *)
(* computed, not assumed.                                                  *)
(***************************************************************************)
EXTENDS Integers, Sequences, FiniteSets, TLC

\* ------------------------------------------------------------ JSON values

JNull == [k |-> "null", v |-> "null"]
JUndef == [k |-> "undefined", v |-> "undefined"]
JStr(s) == [k |-> "str", v |-> s]
JNum(n) == [k |-> "num", v |-> n]
JBool(b) == [k |-> "bool", v |-> b]
JObj(f) == [k |-> "obj", v |-> f]
JArr(q) == [k |-> "arr", v |-> q]
\* a JS string holding text: v is its token sequence
JText(q) == [k |-> "text", v |-> q]

EmptyObj == [x \in {} |-> JNull]

IsComposite(x) == x.k \in {"obj", "arr"}
IsString(x) == x.k \in {"str", "text"}

\* JS truthiness of a value
Truthy(x) ==
  CASE x.k = "null" -> FALSE
    [] x.k = "undefined" -> FALSE
    [] x.k = "str" -> x.v # ""
    [] x.k = "text" -> x.v # <<>>
    [] x.k = "num" -> x.v # 0
    [] x.k = "bool" -> x.v
    [] OTHER -> TRUE

\* ------------------------------------------------------------ texts

\* A token is [tag, lex]: punctuation "p", a backtick "bt", whitespace "ws", a
\* string literal "str", a number "num", a bare word "w". Tokens of different
\* tags differ in their tag, which is compared first.

P(c) == [tag |-> "p", lex |-> c]
\* one backtick character
Bt == [tag |-> "bt", lex |-> "bt"]
Nl == [tag |-> "ws", lex |-> "\n"]
Sp == [tag |-> "ws", lex |-> " "]
TStr(s) == [tag |-> "str", lex |-> s]
TNum(n) == [tag |-> "num", lex |-> n]
W(s) == [tag |-> "w", lex |-> s]

IsBt(s, i) == i >= 1 /\ i <= Len(s) /\ s[i] = Bt
IsNl(s, i) == i >= 1 /\ i <= Len(s) /\ s[i] = Nl
IsWs(s, i) == i >= 1 /\ i <= Len(s) /\ s[i].tag = "ws"

\* Object.keys of an object, in a fixed order
RECURSIVE KeySeq(_)
KeySeq(S) ==
  IF S = {} THEN <<>>
  ELSE LET x == CHOOSE y \in S : TRUE IN <<x>> \o KeySeq(S \ {x})

\* JSON.stringify
RECURSIVE Stringify(_)
RECURSIVE StringifyMembers(_, _)
RECURSIVE StringifyElements(_, _)
Stringify(x) ==
  CASE x.k = "null" -> <<W("null")>>
    [] x.k = "str" -> <<TStr(x.v)>>
    [] x.k = "num" -> <<TNum(x.v)>>
    [] x.k = "bool" -> <<W(IF x.v THEN "true" ELSE "false")>>
    [] x.k = "obj" -> <<P("{")>> \o StringifyMembers(x.v, KeySeq(DOMAIN x.v)) \o <<P("}")>>
    [] x.k = "arr" -> <<P("[")>> \o StringifyElements(x.v, 1) \o <<P("]")>>
    [] OTHER -> <<>>
StringifyMembers(f, keys) ==
  IF keys = <<>> THEN <<>>
  ELSE <<TStr(Head(keys)), P(":")>> \o Stringify(f[Head(keys)])
       \o (IF Len(keys) > 1 THEN <<P(",")>> ELSE <<>>)
       \o StringifyMembers(f, Tail(keys))
StringifyElements(q, i) ==
  IF i > Len(q) THEN <<>>
  ELSE Stringify(q[i])
       \o (IF i < Len(q) THEN <<P(",")>> ELSE <<>>)
       \o StringifyElements(q, i + 1)

\* JSON.parse: [ok, val, nx]; ok = FALSE is the SyntaxError
PFail == [ok |-> FALSE, val |-> JNull, nx |-> 0]
POk(x, n) == [ok |-> TRUE, val |-> x, nx |-> n]

RECURSIVE SkipWs(_, _)
SkipWs(s, i) == IF IsWs(s, i) THEN SkipWs(s, i + 1) ELSE i

IsP(s, i, c) == i >= 1 /\ i <= Len(s) /\ s[i] = P(c)

RECURSIVE ParseValue(_, _)
RECURSIVE ParseMembers(_, _, _)
RECURSIVE ParseElements(_, _, _)
ParseValue(s, i) ==
  LET j == SkipWs(s, i) IN
  IF j > Len(s) THEN PFail
  ELSE CASE s[j].tag = "str" -> POk(JStr(s[j].lex), j + 1)
         [] s[j].tag = "num" -> POk(JNum(s[j].lex), j + 1)
         [] s[j] = W("true") -> POk(JBool(TRUE), j + 1)
         [] s[j] = W("false") -> POk(JBool(FALSE), j + 1)
         [] s[j] = W("null") -> POk(JNull, j + 1)
         [] s[j] = P("{") ->
              LET j2 == SkipWs(s, j + 1) IN
              IF IsP(s, j2, "}") THEN POk(JObj(EmptyObj), j2 + 1)
              ELSE ParseMembers(s, j2, EmptyObj)
         [] s[j] = P("[") ->
              LET j2 == SkipWs(s, j + 1) IN
              IF IsP(s, j2, "]") THEN POk(JArr(<<>>), j2 + 1)
              ELSE ParseElements(s, j2, <<>>)
         [] OTHER -> PFail
\* at a member: "key" : value, then , or }
ParseMembers(s, i, acc) ==
  LET j == SkipWs(s, i) IN
  IF j > Len(s) \/ s[j].tag # "str" THEN PFail
  ELSE LET c == SkipWs(s, j + 1) IN
       IF ~IsP(s, c, ":") THEN PFail
       ELSE LET r == ParseValue(s, c + 1) IN
            IF ~r.ok THEN PFail
            ELSE LET acc2 == [x \in DOMAIN acc \cup {s[j].lex} |->
                                IF x = s[j].lex THEN r.val ELSE acc[x]]
                     e == SkipWs(s, r.nx)
                 IN IF IsP(s, e, "}") THEN POk(JObj(acc2), e + 1)
                    ELSE IF IsP(s, e, ",") THEN ParseMembers(s, e + 1, acc2)
                    ELSE PFail
ParseElements(s, i, acc) ==
  LET r == ParseValue(s, i) IN
  IF ~r.ok THEN PFail
  ELSE LET e == SkipWs(s, r.nx) IN
       IF IsP(s, e, "]") THEN POk(JArr(Append(acc, r.val)), e + 1)
       ELSE IF IsP(s, e, ",") THEN ParseElements(s, e + 1, Append(acc, r.val))
       ELSE PFail

\* JSON.parse(x) of a JS value x: a non-string is first converted to a string
\* ("[object Object]", "1,2", ...); null, true, false and numbers convert to
\* texts that parse back to themselves.
JsonParse(x) ==
  CASE x.k = "text" ->
         LET r == ParseValue(x.v, 1) IN
         IF r.ok /\ SkipWs(x.v, r.nx) > Len(x.v) THEN POk(r.val, 0) ELSE PFail
    [] x.k \in {"null", "num", "bool"} -> POk(x, 0)
    [] OTHER -> PFail

\* ------------------------------------------------------------ removeMarkdownCodeMarkup

\* end of the match of the first alternative (three backticks, [\s\S]*? , newline,
\* three backticks) whose opening backticks were read (0: no match); j is the
\* candidate position of the newline, tried from the left (the quantifier is lazy)
RECURSIVE FenceEnd(_, _)
FenceEnd(s, j) ==
  IF j + 3 > Len(s) THEN 0
  ELSE IF IsNl(s, j) /\ IsBt(s, j + 1) /\ IsBt(s, j + 2) /\ IsBt(s, j + 3) THEN j + 3
  ELSE FenceEnd(s, j + 1)

\* end of the match of the second alternative (backtick, (.*?), backtick) whose
\* opening backtick is before k (0: no match); a dot matches no line terminator
RECURSIVE InlineEnd(_, _)
InlineEnd(s, k) ==
  IF k > Len(s) THEN 0
  ELSE IF IsBt(s, k) THEN k
  ELSE IF IsNl(s, k) THEN 0
  ELSE InlineEnd(s, k + 1)

\* mutant of ReplaceCode: an inline match is replaced by "" too
RECURSIVE ReplaceCodeDropped(_, _)
ReplaceCodeDropped(s, i) ==
  IF i > Len(s) THEN <<>>
  ELSE LET fe == IF IsBt(s, i) /\ IsBt(s, i + 1) /\ IsBt(s, i + 2)
                 THEN FenceEnd(s, i + 3) ELSE 0
           ie == IF IsBt(s, i) THEN InlineEnd(s, i + 1) ELSE 0
       IN IF fe # 0 THEN ReplaceCodeDropped(s, fe + 1)
          ELSE IF ie # 0 THEN ReplaceCodeDropped(s, ie + 1)
          ELSE <<s[i]>> \o ReplaceCodeDropped(s, i + 1)

\* str.replace(/.../g, (match, group1) => group1 ? group1 : ""): a fenced match
\* has no group1 and is replaced by "", an inline match by its content
RECURSIVE ReplaceCode(_, _)
ReplaceCode(s, i) ==
  IF i > Len(s) THEN <<>>
  ELSE LET fe == IF IsBt(s, i) /\ IsBt(s, i + 1) /\ IsBt(s, i + 2)
                 THEN FenceEnd(s, i + 3) ELSE 0
           ie == IF IsBt(s, i) THEN InlineEnd(s, i + 1) ELSE 0
       IN IF fe # 0 THEN ReplaceCode(s, fe + 1)
          ELSE IF ie # 0 THEN SubSeq(s, i + 1, ie - 1) \o ReplaceCode(s, ie + 1)
          ELSE <<s[i]>> \o ReplaceCode(s, i + 1)

RECURSIVE TrimLeft(_)
TrimLeft(s) == IF IsWs(s, 1) THEN TrimLeft(Tail(s)) ELSE s
RECURSIVE TrimRight(_)
TrimRight(s) == IF IsWs(s, Len(s)) THEN TrimRight(SubSeq(s, 1, Len(s) - 1)) ELSE s
Trim(s) == TrimRight(TrimLeft(s))

removeMarkdownCodeMarkup(str) == Trim(ReplaceCode(str, 1))

\* ------------------------------------------------------------ JSON Schema

\* A schema node is a record holding the keywords it declares: type, properties,
\* required, items. NoSchema is the undefined a missing schema reads as.
NoSchema == [undefined |-> TRUE]
IsSchema(schema) == "undefined" \notin DOMAIN schema
Has(schema, kw) == kw \in DOMAIN schema

SType(t) == [type |-> t]
SObj(props) == [type |-> "object", properties |-> props]
SObjReq(props, req) == [type |-> "object", properties |-> props, required |-> req]
SArr(items) == [type |-> "array", items |-> items]
SArrAny == [type |-> "array"]
SAny == [description |-> "any"]
SEnum(t, vals) == [type |-> t, enum |-> vals]
SArrMin(items, n) == [type |-> "array", items |-> items, minItems |-> n]

\* mutant of generateBlankJson: an object's declared properties are not blanked
RECURSIVE generateBlankJson(_)
generateBlankJsonShallow(schema) ==
  IF ~IsSchema(schema) THEN JUndef
  ELSE IF ~Has(schema, "type") THEN JNull
  ELSE CASE schema.type = "object" -> JObj(EmptyObj)
         [] schema.type = "array" -> JArr(<<>>)
         [] schema.type = "string" -> JStr("")
         [] schema.type \in {"number", "integer"} -> JNum(0)
         [] schema.type = "boolean" -> JBool(FALSE)
         [] OTHER -> JNull

\* mutant of generateBlankJson: an array is blanked to the empty array, with or
\* without items
generateBlankJsonNoItem(schema) ==
  IF ~IsSchema(schema) THEN JUndef
  ELSE IF ~Has(schema, "type") THEN JNull
  ELSE CASE schema.type = "object" ->
              LET props == IF Has(schema, "properties") THEN schema.properties ELSE EmptyObj
              IN JObj([key \in DOMAIN props |-> generateBlankJson(props[key])])
         [] schema.type = "array" -> JArr(<<>>)
         [] schema.type = "string" -> JStr("")
         [] schema.type \in {"number", "integer"} -> JNum(0)
         [] schema.type = "boolean" -> JBool(FALSE)
         [] OTHER -> JNull

\* generateBlankJson
generateBlankJson(schema) ==
  IF ~IsSchema(schema) THEN JUndef
  ELSE IF ~Has(schema, "type") THEN JNull
  ELSE CASE schema.type = "object" ->
              LET props == IF Has(schema, "properties") THEN schema.properties ELSE EmptyObj
              IN JObj([key \in DOMAIN props |-> generateBlankJson(props[key])])
         [] schema.type = "array" ->
              IF Has(schema, "items") THEN JArr(<<generateBlankJson(schema.items)>>)
              ELSE JArr(<<>>)
         [] schema.type = "string" -> JStr("")
         [] schema.type \in {"number", "integer"} -> JNum(0)
         [] schema.type = "boolean" -> JBool(FALSE)
         [] OTHER -> JNull

\* the compiled validator of ajv (strict: false): type, properties, required, items,
\* enum, minItems, maxItems
TypeOk(t, x) ==
  CASE t = "object" -> x.k = "obj"
    [] t = "array" -> x.k = "arr"
    [] t = "string" -> x.k = "str"
    [] t \in {"number", "integer"} -> x.k = "num"
    [] t = "boolean" -> x.k = "bool"
    [] t = "null" -> x.k = "null"
    [] OTHER -> FALSE
RECURSIVE Validate(_, _)
Validate(schema, x) ==
  /\ Has(schema, "type") => TypeOk(schema.type, x)
  /\ (Has(schema, "required") /\ x.k = "obj") => schema.required \subseteq DOMAIN x.v
  /\ (Has(schema, "properties") /\ x.k = "obj") =>
       \A key \in DOMAIN schema.properties \cap DOMAIN x.v :
         Validate(schema.properties[key], x.v[key])
  /\ (Has(schema, "items") /\ x.k = "arr") =>
       \A i \in 1..Len(x.v) : Validate(schema.items, x.v[i])
  /\ Has(schema, "enum") => x \in schema.enum
  /\ (Has(schema, "minItems") /\ x.k = "arr") => Len(x.v) >= schema.minItems
  /\ (Has(schema, "maxItems") /\ x.k = "arr") => Len(x.v) <= schema.maxItems

\* ------------------------------------------------------------ deepMerge

\* property keys are strings; the element i of a sequence is the index i - 1
IndexKey(i) == ToString(i - 1)
IndexOf(key, n) ==
  IF \E i \in 1..n : IndexKey(i) = key THEN CHOOSE i \in 1..n : IndexKey(i) = key ELSE 0

\* an array that also carries named (non-index) properties
JArrP(q, f) == [k |-> "arr", v |-> q, props |-> f]
Props(x) == IF "props" \in DOMAIN x THEN x.props ELSE EmptyObj

\* Object.keys(x); a string of the model is atomic: a non-empty one has the one
\* index 0
ObjectKeys(x) ==
  CASE x.k = "obj" -> KeySeq(DOMAIN x.v)
    [] x.k = "arr" -> [i \in 1..Len(x.v) |-> IndexKey(i)] \o KeySeq(DOMAIN Props(x))
    [] x.k = "str" -> IF x.v = "" THEN <<>> ELSE <<IndexKey(1)>>
    [] x.k = "text" -> [i \in 1..Len(x.v) |-> IndexKey(i)]
    [] OTHER -> <<>>

\* x[key]
GetProp(x, key) ==
  CASE x.k = "obj" -> IF key \in DOMAIN x.v THEN x.v[key] ELSE JUndef
    [] x.k = "arr" ->
         IF IndexOf(key, Len(x.v)) # 0 THEN x.v[IndexOf(key, Len(x.v))]
         ELSE IF key \in DOMAIN Props(x) THEN Props(x)[key] ELSE JUndef
    [] x.k = "str" -> IF x.v # "" /\ key = IndexKey(1) THEN x ELSE JUndef
    [] OTHER -> JUndef

\* mutant of SetProp: a property the target holds already is not written
SetPropKeep(x, key, val) ==
  IF GetProp(x, key) # JUndef THEN x
  ELSE IF x.k = "obj"
  THEN JObj([y \in DOMAIN x.v \cup {key} |-> IF y = key THEN val ELSE x.v[y]])
  ELSE JArrP(x.v, [y \in DOMAIN Props(x) \cup {key} |-> IF y = key THEN val ELSE Props(x)[y]])

\* x[key] = val on an object or an array
SetProp(x, key, val) ==
  IF x.k = "obj"
  THEN JObj([y \in DOMAIN x.v \cup {key} |-> IF y = key THEN val ELSE x.v[y]])
  ELSE LET i == IndexOf(key, Len(x.v) + 1)
           q == IF i = 0 THEN x.v
                ELSE IF i = Len(x.v) + 1 THEN Append(x.v, val)
                ELSE [x.v EXCEPT ![i] = val]
           f == IF i # 0 THEN Props(x)
                ELSE [y \in DOMAIN Props(x) \cup {key} |->
                        IF y = key THEN val ELSE Props(x)[y]]
       IN IF DOMAIN f = {} THEN JArr(q) ELSE JArrP(q, f)

\* deepMerge(target, source): [ok, val], val the target after the call; ok = FALSE
\* is a TypeError (the module is an ES module, so strict mode: reading a property
\* of null or undefined throws, and so does assigning one on a primitive)
MFail == [ok |-> FALSE, val |-> JNull]
MOk(x) == [ok |-> TRUE, val |-> x]
RECURSIVE deepMerge(_, _)
RECURSIVE MergeKeys(_, _, _)

\* mutant of deepMerge: only the first key of the source is merged
deepMergeFirstKey(target, source) ==
  IF source.k \in {"null", "undefined"} THEN MFail
  ELSE MergeKeys(target, source,
                 IF ObjectKeys(source) = <<>> THEN <<>> ELSE <<Head(ObjectKeys(source))>>)

\* mutant of deepMerge: the target is checked before the keys are read
deepMergeStrict(target, source) ==
  IF source.k \in {"null", "undefined"} \/ ~IsComposite(target) THEN MFail
  ELSE MergeKeys(target, source, ObjectKeys(source))

deepMerge(target, source) ==
  IF source.k \in {"null", "undefined"} THEN MFail
  ELSE MergeKeys(target, source, ObjectKeys(source))
MergeKeys(target, source, keys) ==
  IF keys = <<>> THEN MOk(target)
  ELSE LET key == Head(keys)
           sv == GetProp(source, key)
       IN IF target.k \in {"null", "undefined"} THEN MFail
          ELSE IF Truthy(sv) /\ IsComposite(sv)
          THEN LET tv == GetProp(target, key)
               IN IF ~Truthy(tv) /\ ~IsComposite(target) THEN MFail
                  ELSE LET r == deepMerge(
                                  IF Truthy(tv) THEN tv
                                  ELSE IF sv.k = "arr" THEN JArr(<<>>) ELSE JObj(EmptyObj),
                                  sv)
                       IN IF ~r.ok THEN MFail
                          ELSE IF ~IsComposite(target) THEN MergeKeys(target, source, Tail(keys))
                          ELSE MergeKeys(SetProp(target, key, r.val), source, Tail(keys))
          ELSE IF ~IsComposite(target) THEN MFail
          ELSE MergeKeys(SetProp(target, key, sv), source, Tail(keys))


\* ------------------------------------------------------------ the OpenAPI document

MAX_RETRY_ATTEMPTS == 3

\* largest number of elements of an array in a model reply
MaxElems == 2

JsonContent(schema) == [content |-> ("application/json" :> [schema |-> schema])]

TextSchema == SObj([text |-> SType("string")])
ItemSchema == SObj([id |-> SType("integer"), label |-> SType("string")])
ItemsSchema ==
  SObj([name |-> SType("string"),
        tags |-> SArr(ItemSchema),
        inner |-> SObj([x |-> SType("string")])])

\* the operation of mock/openApiSpecMock.js
HelloOp == [requestBody |-> JsonContent(TextSchema),
            responses |-> ("200" :> JsonContent(TextSchema))]
\* a request body with a required field; a response with nested objects and an array
ItemsOp == [requestBody |-> JsonContent(SObjReq([text |-> SType("string")], {"text"})),
            responses |-> ("200" :> JsonContent(ItemsSchema))]
\* a response that is a bare string
EchoOp == [requestBody |-> JsonContent(TextSchema),
           responses |-> ("200" :> JsonContent(SType("string")))]
\* no 200 response and no request body
PingOp == [responses |-> ("204" :> [description |-> "No Content"])]
\* a response with an enumerated string and an array of at least two elements
ColorSchema ==
  SObj([color |-> SEnum("string", {JStr("red"), JStr("green")}),
        shades |-> SArrMin(SType("string"), 2)])
ColorOp == [requestBody |-> JsonContent(TextSchema),
            responses |-> ("200" :> JsonContent(ColorSchema))]

Doc ==
  [openapi |-> "3.1.0",
   info |-> [title |-> "Hello World", version |-> "1.0.0"],
   paths |-> ("/hello-world" :> [post |-> HelloOp]) @@ ("/items" :> [post |-> ItemsOp])
            @@ ("/echo" :> [post |-> EchoOp]) @@ ("/ping" :> [get |-> PingOp])
            @@ ("/colors" :> [post |-> ColorOp]),
   components |-> [securitySchemes |-> "BearerAuth"]]

\* the (path, method) pairs a caller asks for: declared ones, a declared path with
\* an undeclared method, an undeclared path
Targets ==
  {<<"/hello-world", "post">>, <<"/items", "post">>, <<"/echo", "post">>,
   <<"/ping", "get">>, <<"/hello-world", "get">>, <<"/missing", "post">>,
   <<"/colors", "post">>}
\* the pairs asked for while hooks are registered
HookTargets == Targets \ {<<"/colors", "post">>}

Declared(spec, path, method) ==
  path \in DOMAIN spec.paths /\ method \in DOMAIN spec.paths[path]

\* mutant of extractRelevantSpec: the check of methodSpec is missing
extractRelevantSpecUnchecked(dereferencedSpec, path, method) ==
  [ok |-> TRUE,
   val |-> [openapi |-> dereferencedSpec.openapi,
            info |-> dereferencedSpec.info,
            paths |-> (path :> (method :> JNull)),
            components |-> dereferencedSpec.components]]

\* mutant of extractRelevantSpec: the paths of the document are not narrowed
extractRelevantSpecWhole(dereferencedSpec, path, method) ==
  IF ~(path \in DOMAIN dereferencedSpec.paths /\ method \in DOMAIN dereferencedSpec.paths[path])
  THEN [ok |-> FALSE, val |-> EmptyObj]
  ELSE [ok |-> TRUE, val |-> dereferencedSpec]

\* extractRelevantSpec: [ok, val]; ok = FALSE is the thrown
\* "Path or method not found in OpenAPI specification"
extractRelevantSpec(dereferencedSpec, path, method) ==
  LET pathPresent == path \in DOMAIN dereferencedSpec.paths
      methodPresent == pathPresent /\ method \in DOMAIN dereferencedSpec.paths[path]
  IN IF ~methodPresent THEN [ok |-> FALSE, val |-> EmptyObj]
     ELSE [ok |-> TRUE,
           val |-> [openapi |-> dereferencedSpec.openapi,
                    info |-> dereferencedSpec.info,
                    paths |-> (path :> (method :> dereferencedSpec.paths[path][method])),
                    components |-> dereferencedSpec.components]]

\* spec.paths[path][method].requestBody?.content["application/json"].schema
RequestSchema(spec, path, method) ==
  LET op == spec.paths[path][method] IN
  IF "requestBody" \in DOMAIN op THEN op.requestBody.content["application/json"].schema
  ELSE NoSchema

\* spec.paths[path][method].responses["200"]?.content["application/json"].schema
ResponseSchema(spec, path, method) ==
  LET op == spec.paths[path][method] IN
  IF "200" \in DOMAIN op.responses THEN op.responses["200"].content["application/json"].schema
  ELSE NoSchema

\* validateData: "ok", or the kind of the error it throws
validateData(spec, jsdata, path, method, type) ==
  LET schemaPath == IF type = "request" THEN RequestSchema(spec, path, method)
                    ELSE ResponseSchema(spec, path, method)
      jsonData == IF IsString(jsdata) THEN JsonParse(jsdata) ELSE POk(jsdata, 0)
  IN IF ~IsSchema(schemaPath) THEN "SchemaNotFound"
     ELSE IF ~jsonData.ok THEN "SyntaxError"
     ELSE IF ~Validate(schemaPath, jsonData.val) THEN "ValidationError"
     ELSE "ok"

\* ------------------------------------------------------------ hooks

\* The callbacks a caller registers: undefined (none), the identity, and, before
\* the prompt, one returning the payload as JSON text and one that throws; after
\* the response, one returning the parsed response object.
BeforeHooks == {"undefined", "identity", "stringify", "throws"}
AfterHooks == {"undefined", "identity", "parse"}

\* mutant of ApplyBeforePromptHook: the hook is called without the payload
ApplyBeforePromptHookNoArgument(hook, jsdata) == [ok |-> hook # "throws", val |-> JUndef]

\* this.beforePromptHook ? this.beforePromptHook(data) : data
ApplyBeforePromptHook(hook, jsdata) ==
  CASE hook = "stringify" -> [ok |-> TRUE, val |-> JText(Stringify(jsdata))]
    [] hook = "throws" -> [ok |-> FALSE, val |-> jsdata]
    [] OTHER -> [ok |-> TRUE, val |-> jsdata]

\* this.afterResponseHook ? this.afterResponseHook(response) : response
ApplyAfterResponseHook(hook, response) ==
  IF hook = "parse"
  THEN LET r == JsonParse(response) IN [ok |-> r.ok, val |-> r.val]
  ELSE [ok |-> TRUE, val |-> response]

\* ------------------------------------------------------------ payloads and replies

\* { ...data }
Spread(x) ==
  CASE x.k = "obj" -> x
    [] x.k = "arr" ->
         JObj([key \in {IndexKey(i) : i \in 1..Len(x.v)} \cup DOMAIN Props(x) |->
                 GetProp(x, key)])
    [] x.k = "str" -> IF x.v = "" THEN JObj(EmptyObj) ELSE JObj(IndexKey(1) :> x)
    [] OTHER -> JObj(EmptyObj)

\* modifyQueryForTailOff
modifyQueryForTailOff(jsdata, retry) == Spread(jsdata)

Paul == JObj([text |-> JStr("Paul")])
Hola == JObj([text |-> JStr("Hola Paul")])

\* the payloads a caller passes: objects, an object given as JSON text, a
\* string that is not JSON, an array and null
Payloads ==
  <<Paul, JObj(EmptyObj), JObj([text |-> JNum(1)]), JText(Stringify(Paul)), JText(<<W("oops")>>),
    JArr(<<JStr("Paul")>>), JNull>>

Fenced(body) == <<Bt, Bt, Bt, W("json"), Nl>> \o body \o <<Nl, Bt, Bt, Bt>>
Inline(body) == <<Bt>> \o body \o <<Bt>>

\* an object of the tags array holding one of the two declared properties
PartialItem(i) == IF i % 2 = 1 THEN JObj([id |-> JNum(i)]) ELSE JObj([label |-> JStr("b")])
TagsReply(n) == JObj([tags |-> JArr([i \in 1..n |-> PartialItem(i)]), inner |-> JObj(EmptyObj)])

\* the texts the model backend may return
Replies ==
  <<Stringify(Hola),
    Fenced(Stringify(Hola)),
    Inline(Stringify(Hola)),
    Stringify(JObj(EmptyObj)),
    Stringify(JObj([text |-> JNum(1)])),
    Stringify(JObj([name |-> JStr("n"), tags |-> JNum(1)])),
    Stringify(JStr("hi")),
    <<W("Sorry")>>,
    Stringify(JObj([color |-> JStr("red"), shades |-> JArr(<<JStr("a"), JStr("b")>>)]))>>
  \o [n \in 1..(MaxElems + 1) |-> Stringify(TagsReply(n - 1))]


\* ------------------------------------------------------------ the state

Reqs == {"a", "b"}

VARIABLES
  env,                \* what the environment does: the requests it makes, the
                      \* operations it asks for, the payloads it passes, the
                      \* callbacks it registers
  probe,              \* a function of the module applied on its own: [fn, arg, out]
  specPromise,        \* this.specPromise: "pending", "fulfilled", "rejected"
  beforePromptHook,   \* this.beforePromptHook
  afterResponseHook,  \* this.afterResponseHook
  pc,                 \* where each processRequest call stands
  pathName, method,   \* its arguments
  data, retryCount,
  requestData,        \* its local requestData while the model call is in flight
  settled,            \* the value it resolved with, or the error it rejected with
  calls,              \* history: the model calls made, [retryCount, input]
  raised,             \* history: the errors its try block caught, [kind, at]
  reply,              \* history: the model's text the call resolved from
  replied,            \* history: of each returned model call, [fenced, verdict]
  hooked,             \* history: some attempt of it ran a registered hook
  seen                \* history: the hooks registered when its pending model call
                      \* started (recorded where the environment asks for it)

vars == <<env, probe, seen, reply, specPromise, beforePromptHook,
          afterResponseHook, pc, pathName,
          method, data, retryCount, requestData, settled, calls, raised, replied, hooked>>

\* an error value: its kind and the retry count of the attempt that created it
Err(kind, at) == [k |-> "error", v |-> kind, at |-> at]

\* no function is applied on its own
NoProbe == [fn |-> "none", arg |-> <<>>, out |-> <<>>, done |-> FALSE]

\* no hooks seen
NoHooks == [before |-> "undefined", after |-> "undefined"]

InitFor(reqs, targets, payloads, before, after, replies, trace) ==
  /\ env = [reqs |-> reqs, targets |-> targets, payloads |-> payloads,
            before |-> before, after |-> after, replies |-> replies, trace |-> trace]
  /\ seen = [r \in Reqs |-> NoHooks]
  /\ reply = [r \in Reqs |-> <<>>]
  /\ specPromise = "pending"
  /\ beforePromptHook = "undefined"
  /\ afterResponseHook = "undefined"
  /\ pc = [r \in Reqs |-> "idle"]
  /\ pathName = [r \in Reqs |-> ""]
  /\ method = [r \in Reqs |-> ""]
  /\ data = [r \in Reqs |-> JUndef]
  /\ retryCount = [r \in Reqs |-> 0]
  /\ requestData = [r \in Reqs |-> JUndef]
  /\ settled = [r \in Reqs |-> JUndef]
  /\ calls = [r \in Reqs |-> <<>>]
  /\ raised = [r \in Reqs |-> <<>>]
  /\ replied = [r \in Reqs |-> <<>>]
  /\ hooked = [r \in Reqs |-> FALSE]

\* the same where the model may return any of the texts
InitWith(reqs, targets, payloads, before, after) ==
  InitFor(reqs, targets, payloads, before, after, 1..Len(Replies), FALSE)

Init == InitWith({"a"}, Targets, 1..Len(Payloads), {}, {}) /\ probe = NoProbe

\* OpenAPIParser.dereference(openApiSpec) settles
DereferenceOk ==
  /\ specPromise = "pending"
  /\ specPromise' = "fulfilled"
  /\ UNCHANGED <<env, probe, seen, reply, beforePromptHook, afterResponseHook, pc,
                 pathName, method, data,
                 retryCount, requestData, settled, calls, raised, replied, hooked>>

DereferenceFail ==
  /\ specPromise = "pending"
  /\ specPromise' = "rejected"
  /\ UNCHANGED <<env, probe, seen, reply, beforePromptHook, afterResponseHook, pc,
                 pathName, method, data,
                 retryCount, requestData, settled, calls, raised, replied, hooked>>

beforePromptGeneration(callback) ==
  /\ callback \in env.before
  /\ beforePromptHook' = callback
  /\ callback # beforePromptHook
  /\ UNCHANGED <<env, probe, seen, reply, specPromise, afterResponseHook, pc,
                 pathName, method, data,
                 retryCount, requestData, settled, calls, raised, replied, hooked>>

afterResponseParsing(callback) ==
  /\ callback \in env.after
  /\ afterResponseHook' = callback
  /\ callback # afterResponseHook
  /\ UNCHANGED <<env, probe, seen, reply, specPromise, beforePromptHook, pc,
                 pathName, method, data,
                 retryCount, requestData, settled, calls, raised, replied, hooked>>

\* processRequest(pathName, method, data) is called: it runs to await this.specPromise
Call(r, p, m, d) ==
  /\ r \in env.reqs
  /\ pc[r] = "idle"
  /\ pc' = [pc EXCEPT ![r] = "awaitSpec"]
  /\ pathName' = [pathName EXCEPT ![r] = p]
  /\ method' = [method EXCEPT ![r] = m]
  /\ data' = [data EXCEPT ![r] = d]
  /\ UNCHANGED <<env, probe, seen, reply, specPromise, beforePromptHook,
                 afterResponseHook, retryCount,
                 requestData, settled, calls, raised, replied, hooked>>

\* what processRequest does between await this.specPromise and llmChain.invoke:
\* [ok, val]: the requestData to send, or the error thrown (outside the try block)
PrePromptWith(r, hook) ==
  LET h == IF hook # "undefined"
           THEN ApplyBeforePromptHook(hook, data[r])
           ELSE [ok |-> TRUE, val |-> data[r]]
      parsed == IF IsString(h.val) THEN JsonParse(h.val) ELSE POk(h.val, 0)
      slice == extractRelevantSpec(Doc, pathName[r], method[r])
  IN IF specPromise = "rejected" THEN [ok |-> FALSE, val |-> Err("InitError", 0)]
     ELSE IF ~h.ok THEN [ok |-> FALSE, val |-> Err("HookError", retryCount[r])]
     ELSE IF ~parsed.ok THEN [ok |-> FALSE, val |-> Err("SyntaxError", retryCount[r])]
     ELSE IF ~slice.ok THEN [ok |-> FALSE, val |-> Err("NotFound", retryCount[r])]
     ELSE [ok |-> TRUE, val |-> parsed.val]

\* the same with the hook read from this.beforePromptHook
PrePrompt(r) == PrePromptWith(r, beforePromptHook)

\* mutant of Awaited: the call goes on without awaiting the promise
AwaitedAtOnce(promise) == TRUE

\* await this.specPromise: the call goes on once the promise has settled
Awaited(promise) == promise # "pending"

\* mutant of Invoke: the model call is started twice
InvokeTwice(q, call) == Append(Append(q, call), call)

\* llmChain.invoke is called: one more model call of the request
Invoke(q, call) == Append(q, call)

\* the specPromise has settled: the call goes on up to the model call, or rejects
Resume(r) ==
  /\ pc[r] = "awaitSpec"
  /\ Awaited(specPromise)
  /\ LET pre == PrePrompt(r) IN
       /\ hooked' = [hooked EXCEPT ![r] = @ \/ (specPromise = "fulfilled"
                                                /\ beforePromptHook # "undefined")]
       /\ IF pre.ok
          THEN /\ pc' = [pc EXCEPT ![r] = "awaitModel"]
               /\ requestData' = [requestData EXCEPT ![r] = pre.val]
               /\ calls' = [calls EXCEPT ![r] =
                              Invoke(@, [retryCount |-> retryCount[r],
                                         input |-> Stringify(pre.val)])]
               /\ seen' = [seen EXCEPT ![r] =
                             IF env.trace
                             THEN [before |-> beforePromptHook, after |-> afterResponseHook]
                             ELSE @]
               /\ UNCHANGED settled
          ELSE /\ pc' = [pc EXCEPT ![r] = "rejected"]
               /\ settled' = [settled EXCEPT ![r] = pre.val]
               /\ UNCHANGED <<requestData, calls, seen>>
  /\ UNCHANGED <<env, probe, reply, specPromise, beforePromptHook,
                 afterResponseHook, pathName,
                 method, data, retryCount, raised, replied>>

\* the try block after the model call returned text: [ok, val], val the output
\* returned or the error thrown
AfterModelWith(r, text, hook) ==
  LET response == JText(removeMarkdownCodeMarkup(text))
      h == IF hook # "undefined"
           THEN ApplyAfterResponseHook(hook, response)
           ELSE [ok |-> TRUE, val |-> response]
      verdict == validateData(Doc, h.val, pathName[r], method[r], "response")
      schema == ResponseSchema(Doc, pathName[r], method[r])
      output == generateBlankJson(schema)
      parsed == JsonParse(h.val)
      merged == deepMerge(output, parsed.val)
      at == retryCount[r]
  IN IF ~h.ok THEN [ok |-> FALSE, val |-> Err("HookError", at)]
     ELSE IF verdict # "ok" THEN [ok |-> FALSE, val |-> Err(verdict, at)]
     ELSE IF ~parsed.ok THEN [ok |-> FALSE, val |-> Err("SyntaxError", at)]
     ELSE IF ~merged.ok THEN [ok |-> FALSE, val |-> Err("TypeError", at)]
     ELSE [ok |-> TRUE, val |-> merged.val]

\* mutant of AfterModel: the hook that was registered when the model call started
AfterModelSnapshot(r, text) == AfterModelWith(r, text, seen[r].after)

\* the same with the hook read from this.afterResponseHook
AfterModel(r, text) == AfterModelWith(r, text, afterResponseHook)

\* mutants of RetryAllowed: one retry too many, one too few
RetryAllowedOnceMore(retry) == retry <= MAX_RETRY_ATTEMPTS
RetryAllowedOnceLess(retry) == retry < MAX_RETRY_ATTEMPTS - 1

\* mutant of RetryAllowed: two retries too many
RetryAllowedTwiceMore(retry) == retry < MAX_RETRY_ATTEMPTS + 2

\* if (retryCount < MAX_RETRY_ATTEMPTS)
RetryAllowed(retry) == retry < MAX_RETRY_ATTEMPTS

\* mutant of Rethrown: the first error the request caught
RethrownFirst(r, error) == IF raised[r] # <<>> THEN raised[r][1] ELSE error

\* throw error, once the retries are spent
Rethrown(r, error) == error

\* mutant of Catch: requestData kept in a field of the instance that every
\* request in flight writes, so that a retry may send another request's payload
CatchShared(r, error) ==
  /\ raised' = [raised EXCEPT ![r] = Append(@, error)]
  /\ IF RetryAllowed(retryCount[r])
     THEN /\ pc' = [pc EXCEPT ![r] = "awaitSpec"]
          /\ \E q \in Reqs :
               /\ q = r \/ pc[q] = "awaitModel"
               /\ data' = [data EXCEPT ![r] = modifyQueryForTailOff(requestData[q], retryCount[r])]
          /\ retryCount' = [retryCount EXCEPT ![r] = @ + 1]
          /\ UNCHANGED settled
     ELSE /\ pc' = [pc EXCEPT ![r] = "rejected"]
          /\ settled' = [settled EXCEPT ![r] = Rethrown(r, error)]
          /\ UNCHANGED <<data, retryCount>>

\* the catch block: a recursive call with retryCount + 1, or the error rethrown
Catch(r, error) ==
  /\ raised' = [raised EXCEPT ![r] = Append(@, error)]
  /\ IF RetryAllowed(retryCount[r])
     THEN /\ pc' = [pc EXCEPT ![r] = "awaitSpec"]
          /\ data' = [data EXCEPT ![r] = modifyQueryForTailOff(requestData[r], retryCount[r])]
          /\ retryCount' = [retryCount EXCEPT ![r] = @ + 1]
          /\ UNCHANGED settled
     ELSE /\ pc' = [pc EXCEPT ![r] = "rejected"]
          /\ settled' = [settled EXCEPT ![r] = Rethrown(r, error)]
          /\ UNCHANGED <<data, retryCount>>

\* the JSON value a text encloses in a fenced code block (three backticks, an
\* optional language tag, a newline, the body, a newline, three backticks), or
\* undefined
FencedBody(text) ==
  LET n == Len(text)
      open == IF n >= 4 /\ text[4].tag = "w" THEN 4 ELSE 3
      body == JsonParse(JText(SubSeq(text, open + 2, n - 4)))
  IN IF /\ n >= open + 5
        /\ IsBt(text, 1) /\ IsBt(text, 2) /\ IsBt(text, 3) /\ IsNl(text, open + 1)
        /\ IsNl(text, n - 3) /\ IsBt(text, n - 2) /\ IsBt(text, n - 1) /\ IsBt(text, n)
        /\ body.ok
     THEN body.val ELSE JUndef

\* the model call returns text: the rest of the try block, and the catch block
ModelReturn(r, text) ==
  /\ pc[r] = "awaitModel"
  /\ hooked' = [hooked EXCEPT ![r] = @ \/ afterResponseHook # "undefined"]
  /\ LET res == AfterModel(r, text) IN
       /\ reply' = [reply EXCEPT ![r] = IF res.ok THEN text ELSE @]
       /\ replied' = [replied EXCEPT ![r] =
            Append(@, [fenced |-> FencedBody(text),
                       verdict |-> validateData(Doc, JText(removeMarkdownCodeMarkup(text)),
                                                pathName[r], method[r], "response")])]
       /\ IF res.ok
          THEN /\ pc' = [pc EXCEPT ![r] = "resolved"]
               /\ settled' = [settled EXCEPT ![r] = res.val]
               /\ UNCHANGED <<data, retryCount, raised>>
          ELSE Catch(r, res.val)
  /\ UNCHANGED <<env, probe, seen, specPromise, beforePromptHook, afterResponseHook,
                 pathName, method, requestData, calls>>

\* the model call throws
ModelThrow(r) ==
  /\ pc[r] = "awaitModel"
  /\ Catch(r, Err("ModelError", retryCount[r]))
  /\ UNCHANGED <<env, probe, seen, reply, specPromise, beforePromptHook,
                 afterResponseHook, pathName,
                 method, requestData, calls, replied, hooked>>

Request(r) ==
  \/ \E t \in env.targets : \E i \in env.payloads : Call(r, t[1], t[2], Payloads[i])
  \/ Resume(r)
  \/ \E i \in env.replies : ModelReturn(r, Replies[i])
  \/ ModelThrow(r)

Next ==
  \/ DereferenceOk
  \/ DereferenceFail
  \/ \E r \in Reqs : Request(r)

Spec == Init /\ [][Next]_vars

\* what the program does without its caller: the document dereferencing settles,
\* a continuation runs, a model call returns or throws
Progress ==
  \/ DereferenceOk
  \/ DereferenceFail
  \/ \E r \in Reqs : Resume(r) \/ ModelThrow(r) \/ \E i \in env.replies : ModelReturn(r, Replies[i])

\* one request, for an object payload or a string that is not JSON, where the
\* dereferencing settles, continuations run and every model call returns or throws
InitLive == InitWith({"a"}, Targets, {1, 5}, {}, {}) /\ probe = NoProbe

SpecLive == InitLive /\ [][Next]_vars /\ WF_vars(Progress)

\* the same with hooks registered and re-registered at any time (a pre-prompt hook
\* that throws, a post-response hook that returns the parsed object), for an object
\* payload and a payload given as JSON text
NextHooks ==
  \/ Next
  \/ \E h \in BeforeHooks : beforePromptGeneration(h)
  \/ \E h \in AfterHooks : afterResponseParsing(h)

InitHooks ==
  /\ InitWith({"a"}, HookTargets, {1, 4}, {"undefined", "throws"}, {"undefined", "parse"})
  /\ probe = NoProbe

SpecHooks == InitHooks /\ [][NextHooks]_vars

\* hooks that pass their argument through, registered, replaced by other hooks and
\* unregistered at any time
PassTargets == {<<"/hello-world", "post">>, <<"/hello-world", "get">>}

InitPassThrough ==
  /\ InitWith({"a"}, PassTargets, {1}, {"undefined", "identity"},
              {"undefined", "identity", "parse"})
  /\ probe = NoProbe

SpecPassThrough == InitPassThrough /\ [][NextHooks]_vars

\* two requests made on one instance, at any time of each other, with two object
\* payloads, no hooks registered, and a model that returns a valid reply, an
\* empty object or a text that is not JSON, or throws
TwoReplies == {1, 4, 8}

InitTwo ==
  /\ InitFor(Reqs, {<<"/hello-world", "post">>}, {1, 2}, {}, {}, TwoReplies, FALSE)
  /\ probe = NoProbe

SpecTwo == InitTwo /\ [][Next]_vars

\* one request while hooks are registered and unregistered at any time, the
\* hooks registered at the start of each model call being recorded; the model
\* returns a valid reply or a text that is not JSON, or throws
SeenReplies == {1, 8}

InitSeen ==
  /\ InitFor({"a"}, {<<"/hello-world", "post">>}, {1}, {"undefined", "throws"},
             {"undefined", "parse"}, SeenReplies, TRUE)
  /\ probe = NoProbe

SpecSeen == InitSeen /\ [][NextHooks]_vars

\* ------------------------------------------------------------ the functions on their own

\* longest body of a code block or code span, longest text of free tokens
MaxBody == 2
MaxText == 4

\* sequences of 1..n elements of S
SeqsUpTo(S, n) == UNION {[1..m -> S] : m \in 1..n}

\* a fenced code block with no language tag
FencedBare(body) == <<Bt, Bt, Bt, Nl>> \o body \o <<Nl, Bt, Bt, Bt>>

\* the contents of code blocks and code spans: a JSON text, and short texts of
\* words, numbers, blanks and newlines
Bodies == {Stringify(JObj([a |-> JNum(1)]))} \cup SeqsUpTo({W("x"), TNum(1), Sp, Nl}, MaxBody)

\* the texts removeMarkdownCodeMarkup is applied to: [form, body, text]
NormalizeArgs ==
  {[form |-> "fenced", body |-> b, text |-> Fenced(b)] : b \in Bodies}
  \cup {[form |-> "fenced", body |-> b, text |-> FencedBare(b)] : b \in Bodies}
  \cup {[form |-> "inline", body |-> b, text |-> Inline(b)] : b \in Bodies}
  \cup {[form |-> "plain", body |-> b, text |-> b] : b \in Bodies}
  \cup {[form |-> "free", body |-> <<>>, text |-> t] : t \in {<<>>} \cup SeqsUpTo({Bt, W("x"), Nl}, MaxText)}

\* the schemas generateBlankJson is applied to
ProbeSchemas ==
  <<SType("string"), SType("integer"), SType("boolean"), SType("null"), SAny, SArrAny,
    SArr(SType("integer")),
    SObj([a |-> SType("string"), b |-> SType("integer")]),
    SArr(SObj([a |-> SType("string")])),
    SObj([o |-> SObj([a |-> SType("string")]), l |-> SArr(SType("integer"))]),
    NoSchema>>

\* the schema nodes generateBlankJson is applied to on its own
BlankSchemas ==
  SelectSeq(ProbeSchemas, IsSchema)
    \o <<SType("number"), SType("object"), SArr(SArrAny), SArr(SArr(SType("boolean"))),
         SObj([n |-> SAny, z |-> SType("null"), x |-> SType("number")])>>

\* the JSON values deepMerge is given as source
Primitives == {JNull, JStr(""), JStr("s"), JNum(0), JNum(5), JBool(FALSE), JBool(TRUE)}
FlatObjects == {JObj(f) : f \in UNION {[D -> {JStr("s"), JNum(5)}] : D \in SUBSET {"a", "b"}}}
Arrays ==
  {JArr(<<>>)} \cup {JArr(q) : q \in SeqsUpTo({JNum(5), JObj([a |-> JStr("s")]), JObj(EmptyObj)},
                                              MaxElems)}
NestedObjects ==
  {JObj([key \in D |-> IF key = "o" THEN o ELSE l]) :
     D \in SUBSET {"o", "l"},
     o \in {JObj(EmptyObj), JObj([a |-> JStr("s")])},
     l \in {JArr(<<>>), JArr(<<JNum(5)>>), JArr(<<JNum(5), JNum(0)>>)}}
ProbeValues == Primitives \cup FlatObjects \cup Arrays \cup NestedObjects

\* the composites deepMerge is applied to on its own: as target, the values
\* above and objects that hold a primitive, null or a composite of either kind
\* at the keys of the sources; as source, the values above and objects that hold
\* a primitive or null
MixedObjects ==
  {JObj([key \in D |-> IF key = "o" THEN o ELSE l]) :
     D \in (SUBSET {"o", "l"}) \ {{}},
     o \in {JArr(<<>>), JArr(<<JNum(5)>>), JStr("s"), JNum(0), JNull},
     l \in {JObj(EmptyObj), JObj([a |-> JStr("s")]), JNum(5)}}
MergeTargets == FlatObjects \cup Arrays \cup NestedObjects \cup MixedObjects
MergeSources ==
  FlatObjects \cup Arrays \cup NestedObjects
    \cup {JObj([o |-> x]) : x \in Primitives}
    \cup {JObj([o |-> JObj([a |-> x])]) : x \in {JNull, JNum(0), JStr("t")}}
    \cup {JArr(<<x>>) : x \in {JNull, JBool(FALSE)}}

\* the documents extractRelevantSpec is applied to, and the names asked for
ProbeDocs ==
  <<Doc,
    [Doc EXCEPT !.paths = ("/hello-world" :> [post |-> HelloOp, get |-> PingOp])],
    [Doc EXCEPT !.paths = EmptyObj]>>
ProbePaths == {"/hello-world", "/items", "/missing"}
ProbeMethods == {"get", "post", "put"}

InitFunctions ==
  /\ InitWith({}, {}, {}, {}, {})
  /\ \/ \E a \in NormalizeArgs : probe = [NoProbe EXCEPT !.fn = "normalize", !.arg = a]
     \/ \E i \in 1..Len(ProbeSchemas) : \E x \in ProbeValues :
          /\ x = JObj(EmptyObj) \/ (IsSchema(ProbeSchemas[i]) /\ Validate(ProbeSchemas[i], x))
          /\ probe = [NoProbe EXCEPT !.fn = "reconcile",
                                     !.arg = [schema |-> ProbeSchemas[i], source |-> x]]
     \/ \E t \in MergeTargets : \E x \in MergeSources :
          probe = [NoProbe EXCEPT !.fn = "merge", !.arg = [target |-> t, source |-> x]]
     \/ \E i \in 1..Len(BlankSchemas) :
          probe = [NoProbe EXCEPT !.fn = "blank", !.arg = [schema |-> BlankSchemas[i]]]
     \/ \E i \in 1..Len(ProbeDocs) : \E path \in ProbePaths : \E m \in ProbeMethods :
          probe = [NoProbe EXCEPT !.fn = "slice",
                                  !.arg = [doc |-> ProbeDocs[i], path |-> path, method |-> m]]

Unprobed ==
  UNCHANGED <<env, seen, reply, specPromise, beforePromptHook, afterResponseHook, pc, pathName,
              method, data, retryCount, requestData, settled, calls, raised, replied, hooked>>

\* removeMarkdownCodeMarkup(text)
Normalize ==
  /\ probe.fn = "normalize" /\ ~probe.done
  /\ probe' = [probe EXCEPT !.out = removeMarkdownCodeMarkup(probe.arg.text), !.done = TRUE]
  /\ Unprobed

\* output = generateBlankJson(schema); deepMerge(output, source)
Reconcile ==
  /\ probe.fn = "reconcile" /\ ~probe.done
  /\ probe' = [probe EXCEPT !.out = deepMerge(generateBlankJson(probe.arg.schema),
                                              probe.arg.source),
                            !.done = TRUE]
  /\ Unprobed

\* generateBlankJson(schema)
Blank ==
  /\ probe.fn = "blank" /\ ~probe.done
  /\ probe' = [probe EXCEPT !.out = generateBlankJson(probe.arg.schema), !.done = TRUE]
  /\ Unprobed

\* deepMerge(target, source)
Merge ==
  /\ probe.fn = "merge" /\ ~probe.done
  /\ probe' = [probe EXCEPT !.out = deepMerge(probe.arg.target, probe.arg.source),
                            !.done = TRUE]
  /\ Unprobed

\* extractRelevantSpec(doc, path, method)
Slice ==
  /\ probe.fn = "slice" /\ ~probe.done
  /\ probe' = [probe EXCEPT !.out = extractRelevantSpec(probe.arg.doc, probe.arg.path,
                                                       probe.arg.method),
                            !.done = TRUE]
  /\ Unprobed

NextFunctions == Normalize \/ Reconcile \/ Slice \/ Blank \/ Merge

SpecFunctions == InitFunctions /\ [][NextFunctions]_vars

\* ------------------------------------------------------------ properties

Settled(r) == pc[r] \in {"resolved", "rejected"}
Last(q) == q[Len(q)]
Kinds(q) == {q[i].v : i \in 1..Len(q)}

\* the reply the call resolved from, as processRequest reads it with no hook
ModelOutput(r) == JsonParse(JText(removeMarkdownCodeMarkup(reply[r])))

\* C1. End to end: POST /hello-world, payload {text: "Paul"}, no hooks, and a first
\* model reply that is {"text":"Hola Paul"} in a fenced code block: processRequest
\* resolves with {text: "Hola Paul"}.
C1_EndToEnd ==
  \A r \in Reqs :
    ( /\ Settled(r)
      /\ pathName[r] = "/hello-world" /\ method[r] = "post"
      /\ ~hooked[r]
      /\ calls[r] # <<>> /\ calls[r][1].input = Stringify(Paul)
      /\ replied[r] # <<>> /\ replied[r][1].fenced = Hola )
    => (pc[r] = "resolved" /\ settled[r] = Hola)

\* a reply fails response validation: validateData throws on its text or its value
FailsValidation(entry) == entry.verdict \in {"SyntaxError", "ValidationError"}

\* every model call of the request returned a reply, and every reply failed validation
EveryReplyFails(r) ==
  /\ calls[r] # <<>>
  /\ Len(replied[r]) = Len(calls[r])
  /\ \A i \in 1..Len(replied[r]) : FailsValidation(replied[r][i])

\* C2. Retry budget: with no hooks and a model whose reply fails response-schema
\* validation on every attempt, the model is invoked exactly 4 times, with retry
\* counts 0, 1, 2, 3, and only then does processRequest reject.
C2_RetryBudget ==
  \A r \in Reqs :
    (~hooked[r] /\ EveryReplyFails(r)) =>
      /\ pc[r] # "resolved"
      /\ Len(calls[r]) <= 4
      /\ \A i \in 1..Len(calls[r]) : calls[r][i].retryCount = i - 1
      /\ pc[r] = "rejected" <=> Len(calls[r]) = 4
      /\ pc[r] = "rejected" => settled[r] = Last(raised[r])

C2_Witness ==
  /\ ~hooked["a"] /\ EveryReplyFails("a")
  /\ pc["a"] = "rejected" /\ Len(calls["a"]) = 4
  /\ \A i \in 1..4 : replied["a"][i].verdict = "ValidationError"

\* C3. When the retry budget is exhausted, processRequest rejects with the error
\* value the 4th attempt raised: not with an earlier attempt's, not with a new one.
C3_LastErrorVerbatim ==
  \A r \in Reqs :
    (pc[r] = "rejected" /\ Len(raised[r]) = 4) =>
      /\ settled[r] = raised[r][4]
      /\ settled[r].at = 3
      /\ \A i \in 1..3 : settled[r] # raised[r][i]

C3_Witness ==
  /\ pc["a"] = "rejected" /\ Len(raised["a"]) = 4
  /\ raised["a"][1].v = "ModelError" /\ raised["a"][4].v = "ValidationError"

\* errors thrown before the operation is looked up in the document
BeforeLookup == {"InitError", "HookError", "SyntaxError"}

C5_SchemaNotFoundNotRetried ==
  \A r \in Reqs :
    "SchemaNotFound" \in Kinds(raised[r]) =>
      /\ Len(calls[r]) <= 1
      /\ retryCount[r] = 0
      /\ pc[r] = "rejected"

\* the failures the claim calls transient
Transient == {"ModelError", "SyntaxError", "ValidationError"}

\* C6. An attempt with retry count k < 3 that fails because the model call throws,
\* the text is not parseable JSON or the value fails response validation is
\* followed by a next attempt, with retry count k + 1, for the same path and method.
C6_TransientRetried ==
  [][\A r \in Reqs :
       ( /\ pc[r] = "awaitModel" /\ retryCount[r] < 3
         /\ Len(raised'[r]) = Len(raised[r]) + 1
         /\ Last(raised'[r]).v \in Transient )
       => ( /\ pc'[r] = "awaitSpec"
            /\ retryCount'[r] = retryCount[r] + 1
            /\ pathName'[r] = pathName[r] /\ method'[r] = method[r]
            /\ settled'[r] = settled[r] )]_vars

C6_Witness ==
  /\ retryCount["a"] = 3 /\ pc["a"] = "awaitModel"
  /\ Kinds(raised["a"]) = Transient
  /\ \A i \in 1..4 : calls["a"][i].retryCount = i - 1

\* C7. Recovery: when the attempts so far failed and the latest attempt's reply
\* passes validation, processRequest resolves with the output reconciled from that
\* reply, and no model call follows.
C7_Recovery ==
  \A r \in Reqs :
    ( /\ calls[r] # <<>> /\ Len(replied[r]) = Len(calls[r])
      /\ ~hooked[r]
      /\ Last(replied[r]).verdict = "ok" )
    => ( /\ pc[r] = "resolved"
         /\ Len(raised[r]) = Len(calls[r]) - 1 )

\* C8. A payload that does not conform to the operation's request-body schema is
\* never sent to the model (processRequest rejects with a request validation error).
C8_RequestValidated ==
  \A r \in Reqs : \A i \in 1..Len(calls[r]) :
    IsSchema(RequestSchema(Doc, pathName[r], method[r])) =>
      validateData(Doc, JText(calls[r][i].input), pathName[r], method[r], "request") = "ok"

\* every property a schema declares is present in x, at every nesting level and
\* in every element of an array
RECURSIVE Complete(_, _)
Complete(schema, x) ==
  /\ (Has(schema, "type") /\ schema.type = "object" /\ Has(schema, "properties")) =>
       /\ x.k = "obj"
       /\ \A key \in DOMAIN schema.properties :
            key \in DOMAIN x.v /\ Complete(schema.properties[key], x.v[key])
  /\ (Has(schema, "type") /\ schema.type = "array" /\ Has(schema, "items")) =>
       /\ x.k = "arr"
       /\ \A i \in 1..Len(x.v) : Complete(schema.items, x.v[i])

\* C9. Every value processRequest resolves with holds every property the
\* 200-response schema declares, at every nesting level, in nested objects and in
\* every element of an array.
C9_Complete ==
  \A r \in Reqs :
    pc[r] = "resolved" => Complete(ResponseSchema(Doc, pathName[r], method[r]), settled[r])

IsPrimitive(x) == x.k \in {"null", "str", "num", "bool"}

\* x is a blank value of the schema's type: "" for a string, 0 for a number, false
\* for a boolean, an object of blank declared properties, an array of blank items,
\* null for anything else
RECURSIVE IsBlank(_, _)
IsBlank(schema, x) ==
  IF ~Has(schema, "type") THEN x = JNull
  ELSE CASE schema.type = "string" -> x = JStr("")
         [] schema.type \in {"number", "integer"} -> x = JNum(0)
         [] schema.type = "boolean" -> x = JBool(FALSE)
         [] schema.type = "object" ->
              /\ x.k = "obj"
              /\ Has(schema, "properties") => DOMAIN x.v = DOMAIN schema.properties
              /\ Has(schema, "properties") =>
                   \A key \in DOMAIN schema.properties :
                     key \in DOMAIN x.v /\ IsBlank(schema.properties[key], x.v[key])
         [] schema.type = "array" ->
              /\ x.k = "arr"
              /\ Has(schema, "items") => \A i \in 1..Len(x.v) : IsBlank(schema.items, x.v[i])
         [] OTHER -> x = JNull

\* the request resolved from a reply read with no hook, under an object schema
ResolvedObject(r) ==
  /\ pc[r] = "resolved" /\ afterResponseHook = "undefined" /\ ~hooked[r]
  /\ Has(ResponseSchema(Doc, pathName[r], method[r]), "type")
  /\ ResponseSchema(Doc, pathName[r], method[r]).type = "object"

C11_ResultValid ==
  \A r \in Reqs :
    pc[r] = "resolved" => Validate(ResponseSchema(Doc, pathName[r], method[r]), settled[r])

\* the probe applied fn
Applied(fn) == probe.fn = fn /\ probe.done

RECURSIVE Full(_, _)
Full(schema, x) ==
  /\ (Has(schema, "type") /\ schema.type = "object" /\ Has(schema, "properties")) =>
       /\ x.k = "obj"
       /\ \A key \in DOMAIN schema.properties :
            key \in DOMAIN x.v /\ Full(schema.properties[key], x.v[key])
  /\ (Has(schema, "type") /\ schema.type = "array" /\ Has(schema, "items")) =>
       /\ x.k = "arr"
       /\ x.v # <<>>
       /\ \A i \in 1..Len(x.v) : Full(schema.items, x.v[i])

C13_MergeEmpty ==
  (Applied("reconcile") /\ probe.arg.source = JObj(EmptyObj))
  => probe.out = MOk(generateBlankJson(probe.arg.schema))

C13_Witness ==
  /\ Applied("reconcile") /\ probe.arg.source = JObj(EmptyObj)
  /\ probe.arg.schema = SType("null")
  /\ probe.out = MOk(JNull)

HasBt(s) == \E i \in 1..Len(s) : s[i] = Bt
HasNl(s) == \E i \in 1..Len(s) : s[i] = Nl

\* C14. Fenced-block unwrapping: removeMarkdownCodeMarkup applied to a fenced code
\* block (three backticks, an optional language tag, a newline, a non-empty body, a
\* newline, three backticks) returns the body with surrounding whitespace trimmed.
C14_FencedUnwrapped ==
  (Applied("normalize") /\ probe.arg.form = "fenced")
  => probe.out = Trim(probe.arg.body)

\* C15 as stated. Inline-code unwrapping: removeMarkdownCodeMarkup applied to a
\* non-empty content without backticks between two backticks returns the content,
\* applied to two adjacent backticks returns the empty string, and a text with no
\* backtick is returned unchanged apart from trimming.
C15_InlineUnwrapped ==
  Applied("normalize") =>
    /\ probe.arg.form = "inline" => probe.out = probe.arg.body
    /\ probe.arg.text = <<Bt, Bt>> => probe.out = <<>>
    /\ ~HasBt(probe.arg.text) => probe.out = Trim(probe.arg.text)

\* C15 as amended. A non-empty content without backticks or newlines between two
\* backticks is returned with its surrounding whitespace trimmed; two adjacent
\* backticks give the empty string; a text with no backtick is returned unchanged
\* apart from trimming.
C15_InlineUnwrappedOneLine ==
  Applied("normalize") =>
    /\ (probe.arg.form = "inline" /\ ~HasNl(probe.arg.body)) =>
         probe.out = Trim(probe.arg.body)
    /\ probe.arg.text = <<Bt, Bt>> => probe.out = <<>>
    /\ ~HasBt(probe.arg.text) => probe.out = Trim(probe.arg.text)

C15_Witness ==
  /\ Applied("normalize") /\ probe.arg.form = "inline"
  /\ probe.arg.body = <<W("x"), TNum(1)>>
  /\ probe.out = <<W("x"), TNum(1)>>

\* the hooks that hand their argument back
PassThrough == {"undefined", "identity"}

\* C16. Hook pass-through: with identity functions (or undefined) registered as
\* hooks, whatever was registered before, an attempt does what it does with no hook
\* registered: from the same call and the same model reply it sends the same
\* payload or fails with the same error, and it resolves with the same value or
\* catches the same error.
C16_PassThrough ==
  \A r \in Reqs :
    /\ (pc[r] = "awaitSpec" /\ beforePromptHook \in PassThrough) =>
         PrePromptWith(r, beforePromptHook) = PrePromptWith(r, "undefined")
    /\ (pc[r] = "awaitModel" /\ afterResponseHook \in PassThrough) =>
         \A i \in 1..Len(Replies) :
           AfterModelWith(r, Replies[i], afterResponseHook)
             = AfterModelWith(r, Replies[i], "undefined")

C16_Witness ==
  /\ beforePromptHook = "identity" /\ afterResponseHook = "identity"
  /\ hooked["a"] /\ pc["a"] = "resolved" /\ settled["a"] = Hola
  /\ Len(calls["a"]) = 2 /\ calls["a"][2].input = Stringify(Paul)
  /\ raised["a"] = <<Err("HookError", 0)>>

C18_HookObjectReturned ==
  [][\A r \in Reqs :
       ( /\ pc[r] = "awaitModel" /\ afterResponseHook = "parse"
         /\ Len(replied'[r]) = Len(replied[r]) + 1
         /\ Last(replied'[r]).verdict = "ok" )
       => pc'[r] = "resolved"]_vars

\* C19. Termination with a definite outcome: every processRequest call settles,
\* once, either resolving with a value or rejecting with an error, after at most 4
\* model calls; the retry count of an attempt is always in 0..3.
C19_Terminates ==
  /\ \A r \in Reqs : (pc[r] = "awaitSpec") ~> Settled(r)
  /\ [](\A r \in Reqs :
          /\ Len(calls[r]) <= 4
          /\ retryCount[r] \in 0..3
          /\ \A i \in 1..Len(calls[r]) : calls[r][i].retryCount \in 0..3
          /\ pc[r] = "resolved" => settled[r].k \notin {"error", "undefined"}
          /\ pc[r] = "rejected" => settled[r].k = "error"
          /\ ~Settled(r) => settled[r] = JUndef)
  /\ [][\A r \in Reqs : Settled(r) => (pc'[r] = pc[r] /\ settled'[r] = settled[r])]_vars

C19_Witness ==
  /\ pc["a"] = "resolved" /\ retryCount["a"] = 3 /\ Len(calls["a"]) = 4
  /\ Len(raised["a"]) = 3

\* C20. An exception thrown by the pre-prompt hook, or by parsing a string payload
\* that is not valid JSON, is an attempt failure that is retried while the budget
\* remains: a call rejects with such an error only from its last attempt.
C20_PrePromptFailureRetried ==
  \A r \in Reqs :
    (pc[r] = "rejected" /\ settled[r].v \in {"HookError", "SyntaxError"})
    => settled[r].at = MAX_RETRY_ATTEMPTS

\* C21: the default retry modification changes nothing: the payload serialized
\* as the user turn of every retry is value-equal to the one of the first
\* attempt, for any JSON payload (object, array, null)
C21_RetryNoOp ==
  \A r \in Reqs : \A i \in 1..Len(calls[r]) : calls[r][i].input = calls[r][1].input

\* the same for object payloads and payloads given as JSON text of an object
C21_RetryNoOpObject ==
  \A r \in Reqs :
    (Len(calls[r]) >= 1 /\ JsonParse(JText(calls[r][1].input)).val.k = "obj") =>
      \A i \in 1..Len(calls[r]) : calls[r][i].input = calls[r][1].input

C21_Witness ==
  \E r \in Reqs : Len(calls[r]) >= 2 /\ calls[r][1].input = Stringify(Paul)

\* the model calls of a request that have neither returned nor thrown
InFlight(r) ==
  Len(calls[r]) - Len(replied[r])
    - Cardinality({i \in DOMAIN raised[r] : raised[r][i].v = "ModelError"})

\* C22: retries are strictly sequential: a request has at most one model call
\* in flight, exactly while it awaits the model, and the call of attempt k+1
\* is made only after attempt k has failed
C22_Sequential ==
  \A r \in Reqs :
    /\ InFlight(r) \in {0, 1}
    /\ InFlight(r) = 1 <=> pc[r] = "awaitModel"
    /\ \A i \in 1..Len(calls[r]) :
         /\ calls[r][i].retryCount = i - 1
         /\ i > 1 => Len(raised[r]) >= i - 1 /\ raised[r][i - 1].at = i - 2

C22_Witness ==
  \E r \in Reqs : Len(calls[r]) = MAX_RETRY_ATTEMPTS + 1 /\ pc[r] = "awaitModel"

\* what a request holds: its arguments, its retry count, its local data, its
\* outcome and its history
Own(r) ==
  <<pc[r], pathName[r], method[r], data[r], retryCount[r], requestData[r], settled[r],
    calls[r], raised[r], reply[r], replied[r], hooked[r], seen[r]>>

\* the outcome of a request follows from its own arguments and its own model
\* replies: every attempt sends its payload, attempt i is numbered i-1, the
\* output is the reconciliation of its own last reply against its own operation,
\* and the error is the last one its own attempts caught
Alone(r) ==
  /\ \A i \in 1..Len(calls[r]) :
       calls[r][i].input = calls[r][1].input /\ calls[r][i].retryCount = i - 1
  /\ (retryCount[r] = 0 /\ calls[r] # <<>>) => calls[r][1].input = Stringify(data[r])
  /\ pc[r] \in {"awaitSpec", "awaitModel"} => retryCount[r] = Len(raised[r])
  /\ pc[r] = "resolved" =>
       /\ retryCount[r] = Len(raised[r])
       /\ settled[r] = AfterModelWith(r, reply[r], "undefined").val
  /\ (pc[r] = "rejected" /\ specPromise = "fulfilled") =>
       /\ Len(raised[r]) = MAX_RETRY_ATTEMPTS + 1
       /\ settled[r] = Last(raised[r])
  /\ (pc[r] = "rejected" /\ specPromise = "rejected") =>
       raised[r] = <<>> /\ settled[r] = Err("InitError", 0)

RECURSIVE BlankAs(_, _)
BlankAs(schema, x) ==
  LET t == IF Has(schema, "type") THEN schema.type ELSE "none"
      props == IF Has(schema, "properties") THEN schema.properties ELSE EmptyObj
  IN CASE t = "object" ->
            /\ x.k = "obj" /\ DOMAIN x.v = DOMAIN props
            /\ \A key \in DOMAIN props : BlankAs(props[key], x.v[key])
       [] t = "array" ->
            /\ x.k = "arr"
            /\ IF Has(schema, "items")
               THEN Len(x.v) = 1 /\ BlankAs(schema.items, x.v[1])
               ELSE x.v = <<>>
       [] t = "string" -> x = JStr("")
       [] t \in {"number", "integer"} -> x = JNum(0)
       [] t = "boolean" -> x = JBool(FALSE)
       [] OTHER -> x = JNull

KeySet(x) == {ObjectKeys(x)[i] : i \in 1..Len(ObjectKeys(x))}

\* after the merge of s into t gave u: a key s lacks holds in u what it held in t,
\* a key s holds with null or a primitive holds that value in u, and so on
\* wherever the merge went into a composite of t
RECURSIVE Merged(_, _, _)
Merged(t, u, s) ==
  /\ \A key \in KeySet(t) \ KeySet(s) : GetProp(u, key) = GetProp(t, key)
  /\ \A key \in KeySet(s) :
       LET sv == GetProp(s, key)
           tv == GetProp(t, key)
       IN IF ~IsComposite(sv) THEN GetProp(u, key) = sv
          ELSE IsComposite(tv) => Merged(tv, GetProp(u, key), sv)

C26_KindsAligned ==
  (probe.fn = "merge" /\ probe.done /\ probe.out.ok) =>
    \A key \in KeySet(probe.arg.source) :
      IsComposite(GetProp(probe.arg.source, key)) =>
        GetProp(probe.out.val, key).k = GetProp(probe.arg.source, key).k

\* the same where the target held nothing, null, a falsy primitive or a
\* composite of the same kind at the key
C26_KindsAlignedFalsy ==
  (probe.fn = "merge" /\ probe.done /\ probe.out.ok) =>
    \A key \in KeySet(probe.arg.source) :
      LET sv == GetProp(probe.arg.source, key)
          tv == GetProp(probe.arg.target, key)
      IN (IsComposite(sv) /\ (~Truthy(tv) \/ tv.k = sv.k)) =>
           GetProp(probe.out.val, key).k = sv.k

\* C27: once a reply has passed validation, reconciliation cannot fail: no
\* attempt whose reply validated raises an error, whatever the response schema
\* (a top-level schema with no type or a primitive type included)
C27_ReconcileTotal ==
  \A r \in Reqs : \A i \in 1..Len(raised[r]) :
    ~hooked[r] => raised[r][i].v # "TypeError"

\* C28: the hooks are read where they are used: the reply of a model call is
\* given to the post-response hook registered when the call returns (here a
\* hook whose result fails validation, where the bare reply would resolve), and
\* every attempt, retries included, runs the pre-prompt hook registered when
\* the attempt starts (here a hook that throws)
C28_HooksAtUse ==
  [][\A r \in Reqs :
       /\ ( /\ pc[r] = "awaitModel" /\ Len(replied'[r]) = Len(replied[r]) + 1
            /\ Last(replied'[r]).verdict = "ok" ) =>
             IF afterResponseHook = "parse"
             THEN pc'[r] # "resolved" /\ Last(raised'[r]) = Err("SyntaxError", retryCount[r])
             ELSE pc'[r] = "resolved"
       /\ (pc[r] = "awaitSpec" /\ pc'[r] # "awaitSpec" /\ specPromise = "fulfilled") =>
             IF beforePromptHook = "throws"
             THEN pc'[r] = "rejected" /\ settled'[r] = Err("HookError", retryCount[r])
             ELSE pc'[r] = "awaitModel"]_vars

\* the first model call started with no hook registered; its valid reply was
\* given to a post-response hook registered while it was in flight; the retry
\* ran a pre-prompt hook registered after that
C28_Witness ==
  /\ seen["a"] = NoHooks
  /\ Len(replied["a"]) = 1 /\ replied["a"][1].verdict = "ok"
  /\ raised["a"] = <<Err("SyntaxError", 0)>>
  /\ settled["a"] = Err("HookError", 1)

\* C29: initialization gates every request: no model call is made before the
\* dereferencing of the document has completed, and once it has failed no
\* request makes a model call or a retry, and a request can only reject, with
\* the initialization error
C29_InitGate ==
  \A r \in Reqs :
    /\ specPromise = "pending" => calls[r] = <<>> /\ pc[r] \in {"idle", "awaitSpec"}
    /\ specPromise = "rejected" =>
         /\ calls[r] = <<>> /\ raised[r] = <<>> /\ retryCount[r] = 0
         /\ pc[r] \in {"idle", "awaitSpec", "rejected"}
         /\ pc[r] = "rejected" => settled[r] = Err("InitError", 0)

C29_Witness ==
  /\ specPromise = "rejected"
  /\ pc["a"] = "rejected" /\ settled["a"] = Err("InitError", 0) /\ calls["a"] = <<>>
====
